---------------------------- MODULE Spec2Model ----------------------------
(***************************************************************************)
(* A model of rain_check.py, the after-work rain alert.                    *)
(*                                                                         *)
(* One invocation of main() is a sequence of steps (the variable pc is the *)
(* position in main); the wall clock is an environment variable that may   *)
(* pass from one minute to the next between any two steps: main() reads   *)
(* it four times (lines 167, 168, 67, 89).  Invocations are serialized: a  *)
(* new one starts only when the previous one has returned or died with an  *)
(* exception.                                                              *)
(*                                                                         *)
(* Texts (dates, marker file content, area names, forecasts, keywords) are *)
(* strings, handled with Len, SubSeq and \o as Python handles them.        *)
(* The emoji that prefix the two titles and the "Weather Check" header     *)
(* line (output_lines[0], line 218) are left out: output_lines here is     *)
(* output_lines[1:] of the source.                                         *)
(***************************************************************************)
EXTENDS Naturals, Sequences, FiniteSets, TLC

VARIABLES
    day,              \* wall clock: index of the calendar day
    tod,              \* wall clock: minute of the day, 0..1439
    marker,           \* LAST_RUN_FILE: [exists |-> BOOLEAN, content |-> STRING]
    pc,               \* position of the current invocation in main()
    current_hour,     \* main(): local of line 167
    current_minute,   \* main(): local of line 168
    today,            \* check_already_ran_today(): local of line 67
    forecasts,        \* main(): local of line 190
    my_areas,         \* main(): dict of line 196, as a sequence of <<key, value>>
    output_lines,     \* main(): output_lines[1:], as a sequence of <<area, weather>>
    has_bad_weather,  \* main(): local of line 215
    title,            \* main(): local of lines 251, 261
    effects,          \* history: the I/O the current (or last) invocation performed
    outcome,          \* history: how the last finished invocation ended
    invDay,           \* history: clock day at the instant of invocation
    invTod,           \* history: clock minute at the instant of invocation
    marker0,          \* history: the marker file when the invocation started
    invocations,      \* history: number of invocations started
    dispatches        \* history: per day, evening invocations that dispatched

vars == <<day, tod, marker, pc, current_hour, current_minute, today, forecasts,
          my_areas, output_lines, has_bad_weather, title, effects, outcome,
          invDay, invTod, marker0, invocations, dispatches>>

clock   == <<day, tod>>
locals  == <<current_hour, current_minute, today, forecasts, my_areas,
             output_lines, has_bad_weather, title>>
history == <<invDay, invTod, marker0, invocations, dispatches>>

---------------------------------------------------------------------------
(* Bounds of the model *)

MaxDay == 2
MaxInvocations == 3
MaxFeedLen == 3

(* Program constants *)

GateHour == 17
GateMinute == 30

MONITORED_AREAS ==
    <<"Tampines", "City", "Paya Lebar", "Jurong East",
      "Punggol", "Woodlands", "Yishun", "Queenstown">>

BAD_WEATHER == <<"Showers", "Rain", "Thundery">>

RainTitle == "Rain Alert - Bike Safely!"
SafeTitle == "Safe to Bike!"

---------------------------------------------------------------------------
(* The wall clock, datetime.now() *)

\* The minutes the clock is sampled at: midnight, a minute before 17:00, the
\* minutes on both sides of 17:30 and of 18:00, and the last minute of the day.
Instants == {0, 16 * 60 + 59, 17 * 60 + 29, 17 * 60 + 30,
             17 * 60 + 59, 18 * 60, 23 * 60 + 59}

Days == 1 .. MaxDay

\* The calendar date <<year, month, day>> of a clock day; days 0, 1 are
\* 30 and 31 October 2025, day 2 is 1 November.
DateOf(d) == IF d <= 1 THEN <<2025, 10, 30 + d>> ELSE <<2025, 11, d - 1>>

HourOf(t) == t \div 60
MinuteOf(t) == t % 60

Digit(n) == SubSeq("0123456789", n + 1, n + 1)
Pad2(n) == Digit((n \div 10) % 10) \o Digit(n % 10)
Pad4(n) == Pad2(n \div 100) \o Pad2(n % 100)

\* strftime('%Y-%m-%d')
Strftime(date) == Pad4(date[1]) \o "-" \o Pad2(date[2]) \o "-" \o Pad2(date[3])

\* str.strip(): leading and trailing whitespace removed
IsSpace(c) == c \in {" ", "\n", "\t", "\r"}

RECURSIVE LStrip(_)
LStrip(s) == IF Len(s) > 0 /\ IsSpace(SubSeq(s, 1, 1))
             THEN LStrip(SubSeq(s, 2, Len(s)))
             ELSE s

RECURSIVE RStrip(_)
RStrip(s) == IF Len(s) > 0 /\ IsSpace(SubSeq(s, Len(s), Len(s)))
             THEN RStrip(SubSeq(s, 1, Len(s) - 1))
             ELSE s

Strip(s) == RStrip(LStrip(s))

Absent == [exists |-> FALSE, content |-> ""]
File(s) == [exists |-> TRUE, content |-> s]


---------------------------------------------------------------------------
(* The gate: lines 173 and 55-80 *)

\* line 173: the "too early" test on the two locals
TooEarly(h, m) == h < GateHour \/ (h = GateHour /\ m < GateMinute)

\* check_already_ran_today(), given the file and the date string of line 67
check_already_ran_today(file, t) ==
    IF file.exists
    THEN LET last_run_date == Strip(file.content)
         IN  last_run_date = t
    ELSE FALSE

---------------------------------------------------------------------------
(* Filter and classifier: lines 196-204, 215-238, 248-261 *)

\* A Python dict, in insertion order, as a sequence of <<key, value>>
DictHas(d, k) == \E i \in 1 .. Len(d) : d[i][1] = k
DictGet(d, k) == d[CHOOSE i \in 1 .. Len(d) : d[i][1] = k][2]
DictSet(d, k, v) ==
    IF DictHas(d, k)
    THEN [i \in 1 .. Len(d) |-> IF d[i][1] = k THEN <<k, v>> ELSE d[i]]
    ELSE Append(d, <<k, v>>)

InList(x, list) == \E i \in 1 .. Len(list) : list[i] = x

\* lines 196-204: the loop over the feed, from dict d on
RECURSIVE FilterAreas(_, _)
FilterAreas(fs, d) ==
    IF fs = <<>> THEN d
    ELSE LET f == Head(fs)
         IN  IF InList(f.area, MONITORED_AREAS)
             THEN FilterAreas(Tail(fs), DictSet(d, f.area, f.forecast))
             ELSE FilterAreas(Tail(fs), d)

\* Variant of BuildLines: the lines in the dict's own (insertion) order,
\* as `for area in my_areas` would emit them.
BuildLinesDictOrder(d, i) == d

\* lines 221-231: the loop over MONITORED_AREAS from position i on
RECURSIVE BuildLines(_, _)
BuildLines(d, i) ==
    IF i > Len(MONITORED_AREAS) THEN <<>>
    ELSE LET area == MONITORED_AREAS[i]
         IN  IF DictHas(d, area)
             THEN <<<<area, DictGet(d, area)>>>> \o BuildLines(d, i + 1)
             ELSE BuildLines(d, i + 1)

\* Python's `sub in text`: a scan for sub from offset i of text on
RECURSIVE FindFrom(_, _, _)
FindFrom(sub, text, i) ==
    IF i + Len(sub) - 1 > Len(text) THEN FALSE
    ELSE IF SubSeq(text, i, i + Len(sub) - 1) = sub THEN TRUE
    ELSE FindFrom(sub, text, i + 1)

\* Variant of Contains: text.startswith(sub) in place of `sub in text`.
StartsWith(sub, text) == SubSeq(text, 1, Len(sub)) = sub

Contains(sub, text) == FindFrom(sub, text, 1)

\* line 237: any(bad in weather for bad in BAD_WEATHER)
IsBad(weather) == \E k \in 1 .. Len(BAD_WEATHER) : Contains(BAD_WEATHER[k], weather)

\* lines 215, 237-238: the flag after the loop over the emitted lines
RECURSIVE AnyBad(_)
AnyBad(lines) ==
    IF lines = <<>> THEN FALSE
    ELSE IF IsBad(Head(lines)[2]) THEN TRUE
    ELSE AnyBad(Tail(lines))

\* lines 248-261
TitleFor(bad) == IF bad THEN RainTitle ELSE SafeTitle

---------------------------------------------------------------------------
(* Inputs *)

Rec(a, w) == [area |-> a, forecast |-> w]

\* Areas of the feed: two monitored ones, one the script does not monitor,
\* and a monitored name in another case.
FeedAreas == {"Tampines", "City", "Bedok", "city"}

ForecastTexts == {"Cloudy", "Heavy Thundery Showers", "Light Rain", "light rain"}

Records == {Rec(a, w) : a \in FeedAreas, w \in ForecastTexts}

SeqsUpTo(S, n) == UNION {[1 .. k -> S] : k \in 0 .. n}

\* Feeds of the pipeline specification: the two scenarios of the forecast
\* being rainy and clear, and an empty forecasts list.
SampleFeeds ==
    { <<Rec("City", "Heavy Thundery Showers"), Rec("Tampines", "Cloudy")>>,
      <<Rec("City", "Cloudy"), Rec("Tampines", "Cloudy")>>,
      <<>> }

\* What LAST_RUN_FILE may hold before the first invocation: nothing, the
\* date of the day before, today's date (bare or followed by a newline),
\* or text that is no date.
InitialMarkers ==
    { Absent,
      File(Strftime(DateOf(0))),
      File(Strftime(DateOf(1))),
      File(Strftime(DateOf(1)) \o "\n"),
      File("") }

NoLocals ==
    /\ forecasts = <<>>
    /\ my_areas = <<>>
    /\ output_lines = <<>>
    /\ has_bad_weather = FALSE
    /\ title = ""

Init ==
    /\ day = 1
    /\ tod \in Instants
    /\ marker \in InitialMarkers
    /\ pc = "idle"
    /\ current_hour = 0
    /\ current_minute = 0
    /\ today = ""
    /\ NoLocals
    /\ effects = <<>>
    /\ outcome = "none"
    /\ invDay = 1
    /\ invTod = 0
    /\ marker0 = marker
    /\ invocations = 0
    /\ dispatches = [d \in Days |-> 0]

---------------------------------------------------------------------------
(* Steps *)

\* Between two invocations any time passes, within the day or into the next.
Tick ==
    /\ pc = "idle"
    /\ \/ \E t \in Instants : t > tod /\ tod' = t /\ day' = day
       \/ day < MaxDay /\ day' = day + 1 /\ tod' \in Instants
    /\ UNCHANGED <<marker, pc, locals, effects, outcome, history>>

\* While an invocation runs, the clock passes from one minute to the next
\* between two of its steps.
MinutePasses ==
    /\ pc # "idle"
    /\ \/ tod + 1 \in Instants /\ tod' = tod + 1 /\ day' = day
       \/ tod = 23 * 60 + 59 /\ day < MaxDay /\ day' = day + 1 /\ tod' = 0
    /\ UNCHANGED <<marker, pc, locals, effects, outcome, history>>

\* main() returns or dies with an exception: the process ends with result o.
Return(o) ==
    /\ pc' = "idle"
    /\ outcome' = o
    /\ current_hour' = 0
    /\ current_minute' = 0
    /\ forecasts' = <<>>
    /\ my_areas' = <<>>
    /\ output_lines' = <<>>
    /\ has_bad_weather' = FALSE
    /\ title' = ""

\* The scheduler starts the script (line 274) and main() reads the hour,
\* its first statement (line 167): the instant of invocation.
Invoke ==
    /\ pc = "idle"
    /\ invocations < MaxInvocations
    /\ current_hour' = HourOf(tod)
    /\ pc' = "minute"
    /\ invDay' = day
    /\ invTod' = tod
    /\ marker0' = marker
    /\ invocations' = invocations + 1
    /\ effects' = <<>>
    /\ UNCHANGED <<clock, marker, current_minute, today, forecasts, my_areas,
                   output_lines, has_bad_weather, title, outcome, dispatches>>

\* line 168
ReadMinute ==
    /\ pc = "minute"
    /\ current_minute' = MinuteOf(tod)
    /\ pc' = "timegate"
    /\ UNCHANGED <<clock, marker, current_hour, today, forecasts, my_areas,
                   output_lines, has_bad_weather, title, effects, outcome, history>>

\* lines 173-175
TimeGate ==
    /\ pc = "timegate"
    /\ IF TooEarly(current_hour, current_minute)
       THEN Return("too_early")
       ELSE /\ pc' = "ran_today"
            /\ UNCHANGED <<current_hour, current_minute, forecasts, my_areas,
                           output_lines, has_bad_weather, title, outcome>>
    /\ UNCHANGED <<clock, marker, today, effects, history>>

\* Variant of CheckAlreadyRan: the already-ran branch refreshes the marker
\* before it returns.
CheckAlreadyRanRefresh ==
    /\ pc = "ran_today"
    /\ today' = Strftime(DateOf(day))
    /\ IF check_already_ran_today(marker, today')
       THEN /\ marker' = File(today')
            /\ effects' = Append(effects, "marker")
            /\ Return("already_ran")
       ELSE /\ pc' = "fetch"
            /\ UNCHANGED <<marker, effects, current_hour, current_minute,
                           forecasts, my_areas, output_lines, has_bad_weather,
                           title, outcome>>
    /\ UNCHANGED <<clock, history>>

\* lines 179-183, with check_already_ran_today() of lines 55-80
CheckAlreadyRan ==
    /\ pc = "ran_today"
    /\ today' = Strftime(DateOf(day))
    /\ IF check_already_ran_today(marker, today')
       THEN Return("already_ran")
       ELSE /\ pc' = "fetch"
            /\ UNCHANGED <<current_hour, current_minute, forecasts, my_areas,
                           output_lines, has_bad_weather, title, outcome>>
    /\ UNCHANGED <<clock, marker, effects, history>>

\* Variant of GetWeatherFails: the marker is written on the way out, as a
\* `finally: update_last_run()` around the run would do.
GetWeatherFailsMarked ==
    /\ pc = "fetch"
    /\ \E err \in {"transport", "malformed"} :
          effects' = effects \o <<"fetch:" \o err, "marker">>
    /\ marker' = File(Strftime(DateOf(day)))
    /\ Return("fetch_error")
    /\ UNCHANGED <<clock, today, history>>

\* lines 187-190 when get_weather() raises (transport failure, a body that
\* is no JSON) or data['items'][0]['forecasts'] raises (malformed response):
\* the exception leaves main().
GetWeatherFails ==
    /\ pc = "fetch"
    /\ \E err \in {"transport", "malformed"} :
          effects' = Append(effects, "fetch:" \o err)
    /\ Return("fetch_error")
    /\ UNCHANGED <<clock, marker, today, history>>

\* lines 187-190 when the feed arrives
GetWeatherOk ==
    /\ pc = "fetch"
    /\ \E f \in SampleFeeds : forecasts' = f
    /\ effects' = Append(effects, "fetch:ok")
    /\ pc' = "classify"
    /\ UNCHANGED <<clock, marker, current_hour, current_minute, today, my_areas,
                   output_lines, has_bad_weather, title, outcome, history>>

\* lines 196-244 and the choice of the title, lines 248-251, 258-261
Classify ==
    /\ pc = "classify"
    /\ my_areas' = FilterAreas(forecasts, <<>>)
    /\ output_lines' = BuildLines(my_areas', 1)
    /\ has_bad_weather' = AnyBad(output_lines')
    /\ title' = TitleFor(has_bad_weather')
    /\ pc' = "desktop"
    /\ UNCHANGED <<clock, marker, current_hour, current_minute, today, forecasts,
                   effects, outcome, history>>

\* One more dispatching invocation among those started at or after 17:30
CountDispatch ==
    IF invTod >= GateHour * 60 + GateMinute
    THEN [dispatches EXCEPT ![invDay] = @ + 1]
    ELSE dispatches

\* Variant of ShowNotification: no try/except around notify-send, so that
\* what it raises leaves main().
ShowNotificationUnguarded ==
    /\ pc = "desktop"
    /\ dispatches' = CountDispatch
    /\ \E r \in {"ok", "fail"} :
          /\ effects' = Append(effects, "desktop:" \o r)
          /\ IF r = "fail"
             THEN Return("notify_error")
             ELSE /\ pc' = "telegram"
                  /\ UNCHANGED <<current_hour, current_minute, forecasts,
                                 my_areas, output_lines, has_bad_weather,
                                 title, outcome>>
    /\ UNCHANGED <<clock, marker, today, invDay, invTod, marker0, invocations>>

\* Variant of ShowNotification: update_last_run() is called first, before
\* the notifications.
ShowNotificationAfterMark ==
    /\ pc = "desktop"
    /\ marker' = File(Strftime(DateOf(day)))
    /\ \E r \in {"ok", "fail"} : effects' = effects \o <<"marker", "desktop:" \o r>>
    /\ dispatches' = CountDispatch
    /\ pc' = "telegram"
    /\ UNCHANGED <<clock, locals, outcome, invDay, invTod, marker0, invocations>>

\* lines 254, 264 with show_notification() of lines 131-149: notify-send
\* runs or raises, and the bare except swallows what it raises.
ShowNotification ==
    /\ pc = "desktop"
    /\ \E r \in {"ok", "fail"} : effects' = Append(effects, "desktop:" \o r)
    /\ dispatches' = CountDispatch
    /\ pc' = "telegram"
    /\ UNCHANGED <<clock, marker, locals, outcome, invDay, invTod, marker0,
                   invocations>>

\* lines 257, 265 with send_telegram() of lines 95-129: "config" is
\* config['telegram'][...] raising KeyError at lines 112-113, which are
\* outside the try; "fail" is requests.post raising inside it.
SendTelegram ==
    /\ pc = "telegram"
    /\ \E r \in {"ok", "fail", "config"} :
          /\ effects' = Append(effects, "telegram:" \o r)
          /\ IF r = "config"
             THEN Return("notify_error")
             ELSE /\ pc' = "update"
                  /\ UNCHANGED <<current_hour, current_minute, forecasts,
                                 my_areas, output_lines, has_bad_weather,
                                 title, outcome>>
    /\ UNCHANGED <<clock, marker, today, history>>

\* line 271 with update_last_run() of lines 82-93, then main() returns
UpdateLastRun ==
    /\ pc = "update"
    /\ marker' = File(Strftime(DateOf(day)))
    /\ effects' = Append(effects, "marker")
    /\ Return("completed")
    /\ UNCHANGED <<clock, today, history>>

Next ==
    \/ Tick
    \/ MinutePasses
    \/ Invoke
    \/ ReadMinute
    \/ TimeGate
    \/ CheckAlreadyRan
    \/ GetWeatherFails
    \/ GetWeatherOk
    \/ Classify
    \/ ShowNotification
    \/ SendTelegram
    \/ UpdateLastRun

Spec == Init /\ [][Next]_vars

---------------------------------------------------------------------------
(* The filter and classifier alone, on every feed of up to MaxFeedLen      *)
(* records: an invocation at 18:00 that passed the gate and fetched.       *)

InitClassify ==
    /\ day = 1
    /\ tod = 18 * 60
    /\ marker = Absent
    /\ pc = "classify"
    /\ current_hour = 18
    /\ current_minute = 0
    /\ today = Strftime(DateOf(1))
    /\ forecasts \in SeqsUpTo(Records, MaxFeedLen)
    /\ my_areas = <<>>
    /\ output_lines = <<>>
    /\ has_bad_weather = FALSE
    /\ title = ""
    /\ effects = <<"fetch:ok">>
    /\ outcome = "none"
    /\ invDay = 1
    /\ invTod = 18 * 60
    /\ marker0 = Absent
    /\ invocations = 1
    /\ dispatches = [d \in Days |-> 0]

NextClassify == Classify

SpecClassify == InitClassify /\ [][NextClassify]_vars

---------------------------------------------------------------------------
(* Vocabulary of the properties *)

Did(e) == \E i \in 1 .. Len(effects) : effects[i] = e

DesktopAttempted == Did("desktop:ok") \/ Did("desktop:fail")
TelegramAttempted == Did("telegram:ok") \/ Did("telegram:fail") \/ Did("telegram:config")
MarkerWritten == Did("marker")

\* The last invocation has ended, and how
Ended(o) == pc = "idle" /\ outcome = o
GatedOut == Ended("too_early") \/ Ended("already_ran")
PassedGate ==
    \/ pc \in {"fetch", "classify", "desktop", "telegram", "update"}
    \/ Ended("fetch_error") \/ Ended("notify_error") \/ Ended("completed")

\* shouldRun(now, lastRunMarker) of the specification, section 4.1
AtOrAfterGateTime(t) ==
    HourOf(t) > 17 \/ (HourOf(t) = 17 /\ MinuteOf(t) >= 30)
ShouldRun(d, t, file) ==
    /\ AtOrAfterGateTime(t)
    /\ ~(file.exists /\ Strip(file.content) = Strftime(DateOf(d)))

---------------------------------------------------------------------------
(* C1, C2, C4, C8: statements the code does not satisfy *)

\* C1: among the invocations started on one calendar day at or after 17:30,
\* at most one dispatches notifications.
C1_OncePerDay == \A d \in Days : dispatches[d] <= 1

\* C2: an invocation that passed the gate and fetched the feed ends without
\* an error leaving main() and with the marker written, however the
\* notification channels failed.
C2_NotifyFailureNeverAborts ==
    (pc = "idle" /\ Did("fetch:ok")) =>
        /\ outcome = "completed"
        /\ MarkerWritten
        /\ marker.exists

\* C4: main() proceeds past the gate if and only if shouldRun holds of the
\* instant of invocation and of the marker file found.
C4_GateDecision ==
    /\ PassedGate => ShouldRun(invDay, invTod, marker0)
    /\ GatedOut => ~ShouldRun(invDay, invTod, marker0)

\* C8: after an invocation completes, the marker file holds exactly the date
\* the gate of that invocation compared the marker with.
C8_MarkerIsGateDate ==
    Ended("completed") => marker = File(today)

---------------------------------------------------------------------------
(* C3, C5, C6, C7: the pipeline, under Spec *)

C5_GateSkipNoEffects ==
    GatedOut => (effects = <<>> /\ marker = marker0)

\* The second invocation of an evening, gated out by the marker the first
\* one wrote.
C5_Witness ==
    /\ Ended("already_ran")
    /\ invocations = 2
    /\ dispatches[invDay] = 1
    /\ marker = File(today)

\* C6: once the feed is fetched, an invocation that is past the dispatch
\* (about to write the marker, or ended) has attempted both channels.
C6_BothChannelsAttempted ==
    (Did("fetch:ok") /\ pc \in {"update", "idle"}) =>
        (DesktopAttempted /\ TelegramAttempted)

\* The rain-alert path with both channels failing.
C6_Witness ==
    /\ pc = "update"
    /\ title = RainTitle
    /\ effects = <<"fetch:ok", "desktop:fail", "telegram:fail">>

\* C7: a write of the marker is the last effect of its invocation and comes
\* right after a completed desktop attempt and a completed chat-bot attempt;
\* and the marker file differs from what the invocation found only by such
\* a write.
C7_MarkerWrittenLast ==
    /\ \A i \in 1 .. Len(effects) :
          effects[i] = "marker" =>
              /\ i = Len(effects)
              /\ i >= 3
              /\ effects[i - 2] \in {"desktop:ok", "desktop:fail"}
              /\ effects[i - 1] \in {"telegram:ok", "telegram:fail"}
    /\ marker # marker0 => MarkerWritten

\* A completed invocation whose two channels both failed.
C7_Witness ==
    /\ Ended("completed")
    /\ effects = <<"fetch:ok", "desktop:fail", "telegram:fail", "marker">>
    /\ marker # marker0

---------------------------------------------------------------------------
(* C9, C10: the filter and classifier, under SpecClassify *)

EmittedAreas == [i \in 1 .. Len(output_lines) |-> output_lines[i][1]]

InFeed(a) == \E i \in 1 .. Len(forecasts) : forecasts[i].area = a

\* C9: the areas emitted are MONITORED_AREAS with the areas absent from the
\* feed struck out: in that order, none twice, none that is not monitored;
\* and each line carries a forecast the feed gives for its area.
C9_OutputOrderAndFilter ==
    pc = "desktop" =>
        /\ EmittedAreas = SelectSeq(MONITORED_AREAS, InFeed)
        /\ \A i, j \in 1 .. Len(output_lines) :
              i # j => output_lines[i][1] # output_lines[j][1]
        /\ \A i \in 1 .. Len(output_lines) :
              \E k \in 1 .. Len(forecasts) :
                 forecasts[k] = Rec(output_lines[i][1], output_lines[i][2])

\* A feed in the reverse of the monitored order, with a record of an area
\* that is not monitored between the two.
C9_Witness ==
    /\ pc = "desktop"
    /\ forecasts = <<Rec("City", "Light Rain"), Rec("Bedok", "Cloudy"),
                     Rec("Tampines", "Cloudy")>>
    /\ output_lines = <<<<"Tampines", "Cloudy">>, <<"City", "Light Rain">>>>

HasKeyword(text) ==
    \E kw \in {"Showers", "Rain", "Thundery"} :
       \E off \in 1 .. Len(text) :
          /\ off + Len(kw) - 1 <= Len(text)
          /\ SubSeq(text, off, off + Len(kw) - 1) = kw

\* C10: has_bad_weather is true exactly when the text of an emitted line
\* holds one of the three keywords at some offset; then a record of a
\* monitored area holds it; and the title is the rain alert exactly then,
\* the safe-to-bike title otherwise.
C10_ClassificationAndTitle ==
    pc = "desktop" =>
        /\ has_bad_weather <=>
              \E i \in 1 .. Len(output_lines) : HasKeyword(output_lines[i][2])
        /\ has_bad_weather =>
              \E k \in 1 .. Len(forecasts) :
                 /\ InList(forecasts[k].area, MONITORED_AREAS)
                 /\ HasKeyword(forecasts[k].forecast)
        /\ title = (IF has_bad_weather THEN "Rain Alert - Bike Safely!"
                                       ELSE "Safe to Bike!")

\* Rain only where it does not count (an area not monitored, a monitored
\* name in lower case, a keyword in lower case): the title is safe-to-bike.
C10_Witness ==
    /\ pc = "desktop"
    /\ forecasts = <<Rec("Bedok", "Light Rain"), Rec("city", "Heavy Thundery Showers"),
                     Rec("City", "light rain")>>
    /\ output_lines = <<<<"City", "light rain">>>>
    /\ ~has_bad_weather
    /\ title = SafeTitle

=============================================================================
